---- MODULE Spec2Model ----
\* Flight state machine of p2-control/motion_planning.py (class MotionPlanning).
\*
\* Units.  Horizontal coordinates (north, east) and horizontal speeds are whole
\* distance units.  Every altitude (local down coordinate, target altitude,
\* global altitude, home altitude) is kept in hundredths of a unit, so that the
\* thresholds 0.95 * target, 0.1 and 0.01 of the source are exact integers.
\*
\* A waypoint is <<north, east, altitude, heading>>; a heading is the pair
\* <<d_east, d_north>> handed to atan2 (atan2(0, 0) = 0).
EXTENDS Integers, Sequences, FiniteSets, TLC

VARIABLES
    flight_state,      \* self.flight_state
    target_position,   \* self.target_position: 3 entries until the first pop, 4 after
    waypoints,         \* self.waypoints
    in_mission,        \* self.in_mission
    local_position,    \* Drone.local_position  <<north, east, down>>
    local_velocity,    \* Drone.local_velocity  <<v_north, v_east>>
    global_position,   \* Drone.global_position[2] (altitude)
    global_home,       \* Drone.global_home[2] (altitude)
    armed,             \* Drone.armed
    guided,            \* Drone.guided
    pc,                \* "idle", or "plan_path" while the status callback is inside plan_path
    cmds,              \* commands sent to the flight controller, oldest first
    planned,           \* the list plan_path assigned to self.waypoints (<<>> before)
    simplified_path,   \* path of line 187 the list was built from (<<>> before)
    grid_offset,       \* <<north_offset, east_offset>> of line 155
    plan_calls,        \* number of calls of plan_path
    plan_result,       \* "none", "ok" (waypoints assigned) or "raised"
    grid,              \* occupancy grid of the goal selection, grid[row][col], 0 = free
    goal_ne,           \* goal_ne of the goal selection (<<>> before the first draw)
    found,             \* found of the goal selection
    goal_pc            \* "loop" in the while of line 169, "done" after it, "raised"

vars == <<flight_state, target_position, waypoints, in_mission, local_position,
          local_velocity, global_position, global_home, armed, guided, pc,
          cmds, planned, simplified_path, grid_offset, plan_calls, plan_result,
          grid, goal_ne, found, goal_pc>>

goal_selection == <<grid, goal_ne, found, goal_pc>>

telemetry == <<local_position, local_velocity, global_position, global_home,
               armed, guided>>

mission == <<flight_state, target_position, waypoints, in_mission, pc, cmds,
             planned, simplified_path, grid_offset, plan_calls, plan_result>>

----------------------------------------------------------------------------
\* Bounds of the model

\* longest simplified path handed to the waypoint construction
MaxPath == 2

\* largest occupancy grid of the goal selection
MaxRows == 2
MaxCols == 3

\* grid cells a path may visit
Cells == {<<0, 0>>, <<3, 4>>}

\* (north_offset, east_offset) pairs create_grid may return
Offsets == {<<0, 0>>, <<-1, 1>>}

\* local positions the flight controller may report
LocalNE == {<<0, 0>>, <<3, 3>>, <<6, 8>>}
LocalDown == {0, -1, -475, -476}
LocalPositions == {<<ne[1], ne[2], d>> : ne \in LocalNE, d \in LocalDown}

\* horizontal velocities the flight controller may report
LocalVelocities == {<<0, 0>>, <<1, 0>>}

\* global and home altitudes the flight controller may report
GlobalAlts == {-100, 10}
HomeAlts == {0, 1}

----------------------------------------------------------------------------
\* Program constants

States == {"MANUAL", "ARMING", "TAKEOFF", "WAYPOINT", "LANDING", "DISARMING",
           "PLANNING"}

\* TARGET_ALTITUDE = 5, in hundredths
TARGET_ALTITUDE == 500

\* 0.95 of the target altitude, as a percentage
TakeoffPercent == 95

\* arrival radius 5.0
ArrivalRadius == 5

\* landing speed 1.0
LandingSpeed == 1

\* 0.1, in hundredths
HomeAltitudeTolerance == 10

\* 0.01, in hundredths
GroundTolerance == 1

----------------------------------------------------------------------------
\* Python and numpy helpers

Abs(x) == IF x < 0 THEN -x ELSE x

\* squared np.linalg.norm of a 2-vector
NormSq(v) == v[1] * v[1] + v[2] * v[2]

\* Python bool as the int it is
PyInt(b) == IF b THEN 1 ELSE 0

\* Python ~ on an int
PyInvert(x) == -x - 1

\* Python & on ints (two's complement of unbounded width)
RECURSIVE PyAnd(_, _)
PyAnd(x, y) ==
    IF x = 0 \/ y = 0 THEN 0
    ELSE IF x = -1 THEN y
    ELSE IF y = -1 THEN x
    ELSE (x % 2) * (y % 2) + 2 * PyAnd(x \div 2, y \div 2)

\* truth value of an int in an if
Truthy(x) == x # 0

Cmd(op, arg) == [op |-> op, arg |-> arg]

Send(log, op, arg) == Append(log, Cmd(op, arg))

----------------------------------------------------------------------------
\* Results of the planning pipeline

Paths == UNION {[1..n -> Cells] : n \in 0..MaxPath}

\* heading(path): atan2(d_east, d_north) of the segment arriving at each point,
\* 0 for the first
heading(path) ==
    [i \in 1..Len(path) |->
        IF i = 1 THEN <<0, 0>>
        ELSE <<path[i][2] - path[i-1][2], path[i][1] - path[i-1][1]>>]

\* leaves out the start cell
MakeWaypoints_without_start(path, off) ==
    LET theta == heading(path)
    IN  [i \in 1..(Len(path) - 1) |->
            <<path[i+1][1] + off[1], path[i+1][2] + off[2], TARGET_ALTITUDE, theta[i+1]>>]

\* adds the east offset to the row and the north offset to the column
MakeWaypoints_swapped_offsets(path, off) ==
    LET theta == heading(path)
    IN  [i \in 1..Len(path) |->
            <<path[i][1] + off[2], path[i][2] + off[1], TARGET_ALTITUDE, theta[i]>>]

\* lines 192-197: one waypoint per cell of the simplified path
MakeWaypoints(path, off) ==
    LET theta == heading(path)
    IN  [i \in 1..Len(path) |->
            <<path[i][1] + off[1], path[i][2] + off[2], TARGET_ALTITUDE, theta[i]>>]

----------------------------------------------------------------------------
MissionInit ==
    /\ flight_state = "MANUAL"
    /\ target_position = <<0, 0, 0>>
    /\ waypoints = <<>>
    /\ in_mission = TRUE
    /\ local_position = <<0, 0, 0>>
    /\ local_velocity = <<0, 0>>
    /\ global_position = 10
    /\ global_home = 0
    /\ armed = FALSE
    /\ guided = FALSE
    /\ pc = "idle"
    /\ cmds = <<>>
    /\ planned = <<>>
    /\ plan_calls = 0
    /\ plan_result = "none"
    /\ simplified_path = <<>>
    /\ grid_offset = <<0, 0>>

\* no grid has been built before plan_path runs
Init ==
    /\ MissionInit
    /\ grid = <<>>
    /\ goal_ne = <<>>
    /\ found = FALSE
    /\ goal_pc = "loop"

----------------------------------------------------------------------------
\* Transitions.  Each is written over the telemetry the callback sees.

arming_transition ==
    /\ flight_state' = "ARMING"
    /\ cmds' = Send(Send(cmds, "arm", <<>>), "take_control", <<>>)
    /\ UNCHANGED <<target_position, waypoints, in_mission, pc, planned,
                   simplified_path, grid_offset, plan_calls, plan_result>>

takeoff_transition ==
    /\ flight_state' = "TAKEOFF"
    /\ cmds' = Send(cmds, "takeoff", <<target_position[3]>>)
    /\ UNCHANGED <<target_position, waypoints, in_mission, pc, planned,
                   simplified_path, grid_offset, plan_calls, plan_result>>

\* pops the last waypoint instead of the first
waypoint_transition_lifo ==
    /\ flight_state' = "WAYPOINT"
    /\ IF Len(waypoints) > 0
       THEN /\ target_position' = waypoints[Len(waypoints)]
            /\ waypoints' = SubSeq(waypoints, 1, Len(waypoints) - 1)
            /\ cmds' = Send(cmds, "cmd_position", waypoints[Len(waypoints)])
       ELSE UNCHANGED <<target_position, waypoints, cmds>>
    /\ UNCHANGED <<in_mission, pc, planned, simplified_path, grid_offset,
                   plan_calls, plan_result>>

\* waypoints.pop(0) raises IndexError on an empty list: flight_state is
\* already WAYPOINT, nothing else has happened
waypoint_transition ==
    /\ flight_state' = "WAYPOINT"
    /\ IF Len(waypoints) > 0
       THEN /\ target_position' = Head(waypoints)
            /\ waypoints' = Tail(waypoints)
            /\ cmds' = Send(cmds, "cmd_position", Head(waypoints))
       ELSE UNCHANGED <<target_position, waypoints, cmds>>
    /\ UNCHANGED <<in_mission, pc, planned, simplified_path, grid_offset,
                   plan_calls, plan_result>>

landing_transition ==
    /\ flight_state' = "LANDING"
    /\ cmds' = Send(cmds, "land", <<>>)
    /\ UNCHANGED <<target_position, waypoints, in_mission, pc, planned,
                   simplified_path, grid_offset, plan_calls, plan_result>>

disarming_transition ==
    /\ flight_state' = "DISARMING"
    /\ cmds' = Send(Send(cmds, "disarm", <<>>), "release_control", <<>>)
    /\ UNCHANGED <<target_position, waypoints, in_mission, pc, planned,
                   simplified_path, grid_offset, plan_calls, plan_result>>

manual_transition ==
    /\ flight_state' = "MANUAL"
    /\ cmds' = Send(cmds, "stop", <<>>)
    /\ in_mission' = FALSE
    /\ UNCHANGED <<target_position, waypoints, pc, planned, simplified_path,
                   grid_offset, plan_calls, plan_result>>

\* leaves flight_state at ARMING
plan_path_keeps_state ==
    /\ target_position' = [target_position EXCEPT ![3] = TARGET_ALTITUDE]
    /\ plan_calls' = plan_calls + 1
    /\ pc' = "plan_path"
    /\ UNCHANGED <<flight_state, waypoints, in_mission, cmds, planned,
                   simplified_path, grid_offset, plan_result>>

\* plan_path up to the pipeline: lines 122-127
plan_path ==
    /\ flight_state' = "PLANNING"
    /\ target_position' = [target_position EXCEPT ![3] = TARGET_ALTITUDE]
    /\ plan_calls' = plan_calls + 1
    /\ pc' = "plan_path"
    /\ UNCHANGED <<waypoints, in_mission, cmds, planned, simplified_path,
                   grid_offset, plan_result>>

----------------------------------------------------------------------------
\* Guards of the callbacks

\* accepts the boundary altitude
AltitudeReached_inclusive(lp, tp) == (-lp[3]) * 100 >= TakeoffPercent * tp[3]

\* line 52
AltitudeReached(lp, tp) == (-lp[3]) * 100 > TakeoffPercent * tp[3]

\* accepts the boundary distance
NearTarget_inclusive(lp, tp) ==
    NormSq(<<tp[1] - lp[1], tp[2] - lp[2]>>) <= ArrivalRadius * ArrivalRadius

\* line 55
NearTarget(lp, tp) ==
    NormSq(<<tp[1] - lp[1], tp[2] - lp[2]>>) < ArrivalRadius * ArrivalRadius

\* comparison turned round
SlowEnough_flipped(lv) == NormSq(lv) > LandingSpeed * LandingSpeed

\* line 59
SlowEnough(lv) == NormSq(lv) < LandingSpeed * LandingSpeed

\* line 64
NearHomeAltitude(gp, gh) == gp - gh < HomeAltitudeTolerance

\* threshold 0.0 instead of 0.01
OnGround_never(lp) == Abs(lp[3]) < 0

\* accepts the boundary height
OnGround_inclusive(lp) == Abs(lp[3]) <= GroundTolerance

\* line 65
OnGround(lp) == Abs(lp[3]) < GroundTolerance

\* line 78
DisarmedAndReleased(a, g) ==
    Truthy(PyAnd(PyInvert(PyInt(a)), PyInvert(PyInt(g))))

----------------------------------------------------------------------------
\* Callbacks, over the telemetry already stored by the Drone base class

local_position_callback ==
    IF flight_state = "TAKEOFF"
    THEN IF AltitudeReached(local_position', target_position)
         THEN waypoint_transition
         ELSE UNCHANGED mission
    ELSE IF flight_state = "WAYPOINT"
    THEN IF NearTarget(local_position', target_position)
         THEN IF Len(waypoints) > 0
              THEN waypoint_transition
              ELSE IF SlowEnough(local_velocity')
                   THEN landing_transition
                   ELSE UNCHANGED mission
         ELSE UNCHANGED mission
    ELSE UNCHANGED mission

\* also disarms out of WAYPOINT
velocity_callback_any_flight ==
    IF flight_state \in {"LANDING", "WAYPOINT"}
    THEN IF NearHomeAltitude(global_position', global_home')
         THEN IF OnGround(local_position')
              THEN disarming_transition
              ELSE UNCHANGED mission
         ELSE UNCHANGED mission
    ELSE UNCHANGED mission

velocity_callback ==
    IF flight_state = "LANDING"
    THEN IF NearHomeAltitude(global_position', global_home')
         THEN IF OnGround(local_position')
              THEN disarming_transition
              ELSE UNCHANGED mission
         ELSE UNCHANGED mission
    ELSE UNCHANGED mission

\* takes off straight out of ARMING
state_callback_skips_planning ==
    IF in_mission
    THEN IF flight_state = "MANUAL"
         THEN arming_transition
         ELSE IF flight_state = "ARMING"
         THEN IF armed' THEN takeoff_transition ELSE UNCHANGED mission
         ELSE IF flight_state = "PLANNING"
         THEN takeoff_transition
         ELSE IF flight_state = "DISARMING"
         THEN IF DisarmedAndReleased(armed', guided')
              THEN manual_transition
              ELSE UNCHANGED mission
         ELSE UNCHANGED mission
    ELSE UNCHANGED mission

\* does not look at in_mission
state_callback_ignores_mission ==
    IF flight_state = "MANUAL"
    THEN arming_transition
    ELSE IF flight_state = "ARMING"
    THEN IF armed' THEN plan_path ELSE UNCHANGED mission
    ELSE IF flight_state = "PLANNING"
    THEN takeoff_transition
    ELSE IF flight_state = "DISARMING"
    THEN IF DisarmedAndReleased(armed', guided')
         THEN manual_transition
         ELSE UNCHANGED mission
    ELSE UNCHANGED mission

\* ends the mission from every state it does not name
state_callback_manual_elsewhere ==
    IF in_mission
    THEN IF flight_state = "MANUAL"
         THEN arming_transition
         ELSE IF flight_state = "ARMING"
         THEN IF armed' THEN plan_path ELSE UNCHANGED mission
         ELSE IF flight_state = "PLANNING"
         THEN takeoff_transition
         ELSE IF DisarmedAndReleased(armed', guided')
              THEN manual_transition
              ELSE UNCHANGED mission
    ELSE UNCHANGED mission

\* starts planning whatever the armed flag says
state_callback_ignores_armed ==
    IF in_mission
    THEN IF flight_state = "MANUAL"
         THEN arming_transition
         ELSE IF flight_state = "ARMING"
         THEN plan_path
         ELSE IF flight_state = "PLANNING"
         THEN takeoff_transition
         ELSE IF flight_state = "DISARMING"
         THEN IF DisarmedAndReleased(armed', guided')
              THEN manual_transition
              ELSE UNCHANGED mission
         ELSE UNCHANGED mission
    ELSE UNCHANGED mission

state_callback ==
    IF in_mission
    THEN IF flight_state = "MANUAL"
         THEN arming_transition
         ELSE IF flight_state = "ARMING"
         THEN IF armed' THEN plan_path ELSE UNCHANGED mission
         ELSE IF flight_state = "PLANNING"
         THEN takeoff_transition
         ELSE IF flight_state = "DISARMING"
         THEN IF DisarmedAndReleased(armed', guided')
              THEN manual_transition
              ELSE UNCHANGED mission
         ELSE UNCHANGED mission
    ELSE UNCHANGED mission

----------------------------------------------------------------------------
\* Events.  Callbacks are serialized: none is delivered while plan_path runs.

LocalPositionUpdate ==
    /\ pc = "idle"
    /\ \E lp \in LocalPositions : local_position' = lp
    /\ UNCHANGED <<local_velocity, global_position, global_home, armed, guided>>
    /\ local_position_callback
    /\ UNCHANGED goal_selection

LocalVelocityUpdate ==
    /\ pc = "idle"
    /\ \E lv \in LocalVelocities : local_velocity' = lv
    /\ UNCHANGED <<local_position, global_position, global_home, armed, guided>>
    /\ velocity_callback
    /\ UNCHANGED goal_selection

StateUpdate ==
    /\ pc = "idle"
    /\ \E a \in BOOLEAN, g \in BOOLEAN : armed' = a /\ guided' = g
    /\ UNCHANGED <<local_position, local_velocity, global_position, global_home>>
    /\ state_callback
    /\ UNCHANGED goal_selection

\* GLOBAL_POSITION and GLOBAL_HOME messages have no registered callback
GlobalPositionUpdate ==
    /\ pc = "idle"
    /\ \E gp \in GlobalAlts : global_position' = gp
    /\ UNCHANGED <<local_position, local_velocity, global_home, armed, guided>>
    /\ UNCHANGED mission
    /\ UNCHANGED goal_selection

GlobalHomeUpdate ==
    /\ pc = "idle"
    /\ \E gh \in HomeAlts : global_home' = gh
    /\ UNCHANGED <<local_position, local_velocity, global_position, armed, guided>>
    /\ UNCHANGED mission
    /\ UNCHANGED goal_selection

\* plan_path, lines 137-203, pipeline succeeded: waypoints built and stored
PlanPathReturn ==
    /\ pc = "plan_path"
    /\ \E path \in Paths, off \in Offsets :
          LET wps == MakeWaypoints(path, off)
          IN  /\ waypoints' = wps
              /\ planned' = wps
              /\ simplified_path' = path
              /\ grid_offset' = off
              /\ cmds' = Send(Send(cmds, "set_home_position", <<>>),
                              "send_waypoints", wps)
    /\ plan_result' = "ok"
    /\ pc' = "idle"
    /\ UNCHANGED <<flight_state, target_position, in_mission, plan_calls>>
    /\ UNCHANGED telemetry
    /\ UNCHANGED goal_selection

\* plan_path, lines 137-203, a stage raised: before set_home_position (the
\* map file cannot be read) or after it (grid, skeleton, search, headings).
\* The exception leaves the callback; self.waypoints is not assigned.
PlanPathRaise ==
    /\ pc = "plan_path"
    /\ \E home_set \in BOOLEAN :
          cmds' = IF home_set THEN Send(cmds, "set_home_position", <<>>) ELSE cmds
    /\ plan_result' = "raised"
    /\ pc' = "idle"
    /\ UNCHANGED <<flight_state, target_position, waypoints, in_mission,
                   planned, simplified_path, grid_offset, plan_calls>>
    /\ UNCHANGED telemetry
    /\ UNCHANGED goal_selection

Next ==
    \/ LocalPositionUpdate
    \/ LocalVelocityUpdate
    \/ StateUpdate
    \/ GlobalPositionUpdate
    \/ GlobalHomeUpdate
    \/ PlanPathReturn
    \/ PlanPathRaise

Spec == Init /\ [][Next]_vars

----------------------------------------------------------------------------
\* A mission whose planning succeeds, under fair telemetry

LiveNext ==
    \/ LocalPositionUpdate
    \/ LocalVelocityUpdate
    \/ StateUpdate
    \/ GlobalPositionUpdate
    \/ GlobalHomeUpdate
    \/ PlanPathReturn

\* a step that takes the mission forward
Advance ==
    /\ LiveNext
    /\ \/ flight_state' # flight_state
       \/ waypoints' # waypoints
       \/ pc' # pc

MissionEnded == flight_state = "MANUAL" /\ ~in_mission

\* The guard the mission is waiting on can hold at the next delivery of its
\* callback.  Guards over the message a callback is delivered with (armed,
\* altitude reached, arrival, disarmed) can always hold; the landing guard of
\* line 59 reads the stored velocity and the disarming guards of lines 64-65
\* the stored global and local positions.
PendingGuardHolds ==
    \/ MissionEnded
    \/ flight_state \in {"MANUAL", "ARMING", "PLANNING", "TAKEOFF", "DISARMING"}
    \/ flight_state = "WAYPOINT" /\ waypoints # <<>>
    \/ /\ flight_state = "WAYPOINT"
       /\ waypoints = <<>>
       /\ local_velocity[1] * local_velocity[1]
            + local_velocity[2] * local_velocity[2] < 1
    \/ /\ flight_state = "LANDING"
       /\ global_position - global_home < 10
       /\ local_position[3] = 0

\* every pending guard holds again and again, and a callback that can take
\* the mission forward infinitely often is eventually delivered that way
LiveSpec ==
    /\ Init
    /\ [][LiveNext]_vars
    /\ SF_vars(Advance)
    /\ []<>PendingGuardHolds

----------------------------------------------------------------------------
\* Goal selection of plan_path, lines 167-172, over the grids create_grid may
\* hand it.  A grid is a function grid[row][col] with rows and columns
\* numbered from 0; 0 is a free cell.

Grids ==
    UNION {[0..(r - 1) -> [0..(c - 1) -> {0, 1}]] : r \in 1..MaxRows, c \in 1..MaxCols}

Rows(g) == Cardinality(DOMAIN g)

Cols(g) == Cardinality(DOMAIN g[0])

InGrid(g, cell) == cell[1] \in 0..(Rows(g) - 1) /\ cell[2] \in 0..(Cols(g) - 1)

HasFreeCell(g) == \E r \in DOMAIN g : \E c \in DOMAIN g[r] : g[r][c] = 0

\* grid[:, j] and grid[i, :]
Column(g, j) == [r \in DOMAIN g |-> g[r][j]]
Row(g, i) == g[i]

\* array - 1 works on the elements, len counts them
MinusOne(a) == [i \in DOMAIN a |-> a[i] - 1]
PyLen(a) == Cardinality(DOMAIN a)

\* randrange(lo, hi)
randrange(lo, hi) == lo..(hi - 1)

\* takes one off the length instead of off the elements
RowDraws_short(g) == randrange(0, PyLen(Column(g, 1)) - 1)

\* randrange(0, len(grid[:,1]-1))
RowDraws(g) == randrange(0, PyLen(MinusOne(Column(g, 1))))

\* randrange(0, len(grid[1,:]-1))
ColDraws(g) == randrange(0, PyLen(MinusOne(Row(g, 1))))

\* grid[:,1] needs a second column and grid[1,:] a second row
DrawBoundsIndexable(g) == Cols(g) >= 2 /\ Rows(g) >= 2

\* one turn of the while loop, lines 169-172
SelectGoal ==
    /\ goal_pc = "loop"
    /\ ~found
    /\ DrawBoundsIndexable(grid)
    /\ \E r \in RowDraws(grid), c \in ColDraws(grid) :
          /\ goal_ne' = <<r, c>>
          /\ found' = (grid[r][c] = 0)
          /\ goal_pc' = IF grid[r][c] = 0 THEN "done" ELSE "loop"
    /\ UNCHANGED <<grid, mission, telemetry>>

\* line 170 raises IndexError
SelectGoalRaise ==
    /\ goal_pc = "loop"
    /\ ~found
    /\ ~DrawBoundsIndexable(grid)
    /\ goal_pc' = "raised"
    /\ UNCHANGED <<grid, goal_ne, found, mission, telemetry>>

GoalInit ==
    /\ MissionInit
    /\ grid \in Grids
    /\ goal_ne = <<>>
    /\ found = FALSE
    /\ goal_pc = "loop"

GoalNext == SelectGoal \/ SelectGoalRaise

GoalSpec == GoalInit /\ [][GoalNext]_vars

----------------------------------------------------------------------------
TypeOK ==
    /\ flight_state \in States
    /\ in_mission \in BOOLEAN
    /\ pc \in {"idle", "plan_path"}
    /\ plan_result \in {"none", "ok", "raised"}
    /\ Len(target_position) \in {3, 4}

----------------------------------------------------------------------------
\* Observations on the command log

Issued(op) == \E i \in 1..Len(cmds) : cmds[i].op = op

IsPositionCmd(c) == c.op = "cmd_position"

\* the waypoints commanded so far, oldest first
PositionCmds ==
    LET sel == SelectSeq(cmds, IsPositionCmd)
    IN  [i \in 1..Len(sel) |-> sel[i].arg]

----------------------------------------------------------------------------
LifecycleSteps ==
    {<<"MANUAL", "ARMING">>, <<"ARMING", "PLANNING">>, <<"PLANNING", "TAKEOFF">>,
     <<"TAKEOFF", "WAYPOINT">>, <<"WAYPOINT", "LANDING">>,
     <<"LANDING", "DISARMING">>, <<"DISARMING", "MANUAL">>}

\* C1: flight_state changes only along MANUAL -> ARMING -> PLANNING ->
\* TAKEOFF -> WAYPOINT -> LANDING -> DISARMING -> MANUAL; no state is skipped
\* and no other change of state is ever taken.
C1_LifecycleOrder ==
    [][flight_state' # flight_state
          => <<flight_state, flight_state'>> \in LifecycleSteps]_vars

\* a mission that went round the whole cycle, with a re-entry of WAYPOINT
C1_Witness ==
    /\ flight_state = "MANUAL"
    /\ ~in_mission
    /\ Len(PositionCmds) = 2

\* C2 (as claimed): once the planning pipeline has raised, the state machine
\* is in MANUAL and no takeoff or position command has been issued.
C2_PlanFailureAborts ==
    (plan_result = "raised" /\ pc = "idle")
        => /\ flight_state = "MANUAL"
           /\ ~Issued("takeoff")
           /\ ~Issued("cmd_position")

C3_QueueIsSuffix == planned = PositionCmds \o waypoints

C3_AllCommandedAtLanding ==
    flight_state \in {"LANDING", "DISARMING"} => PositionCmds = planned

C3_PopFrontOnly ==
    (plan_result = "ok" /\ waypoints' # waypoints)
        => /\ waypoints # <<>>
           /\ waypoints' = Tail(waypoints)
           /\ cmds' = Send(cmds, "cmd_position", Head(waypoints))

\* C3: the position commands issued so far, followed by the queue, are the
\* planned list; once the vehicle lands all of the list has been commanded;
\* after planning the queue only ever loses its front element.
C3_FifoOrder ==
    /\ [](C3_QueueIsSuffix /\ C3_AllCommandedAtLanding)
    /\ [][C3_PopFrontOnly]_vars

\* two different waypoints were planned and both have been commanded
C3_Witness ==
    /\ flight_state = "LANDING"
    /\ Len(planned) = 2
    /\ planned[1] # planned[2]
    /\ PositionCmds = planned

\* C4: plan_path is never called a second time, and whenever takeoff has
\* been commanded it has been called exactly once.
C4_PlannedOnce ==
    /\ plan_calls <= 1
    /\ (flight_state = "TAKEOFF" \/ Issued("takeoff")) => plan_calls = 1

\* in TAKEOFF after an armed status event
C4_Witness ==
    /\ flight_state = "TAKEOFF"
    /\ armed
    /\ plan_calls = 1

C5_NoStepWhilePlanning == pc = "plan_path" => flight_state' = flight_state

C5_TakeoffAfterDelivery == Issued("takeoff") => plan_result = "ok"

\* C5 (as claimed): while plan_path runs no step changes flight_state, and
\* takeoff is commanded only after self.waypoints has been assigned.
C5_PlanningIsExclusive ==
    /\ [][C5_NoStepWhilePlanning]_vars
    /\ []C5_TakeoffAfterDelivery

C6_LandBeforeDisarmInLog ==
    \A i \in 1..Len(cmds) :
        cmds[i].op \in {"disarm", "release_control"}
            => \E j \in 1..(i - 1) : cmds[j].op = "land"

C6_DisarmingFromLanding ==
    (flight_state' = "DISARMING" /\ flight_state # "DISARMING")
        => flight_state = "LANDING"

\* C6: DISARMING is entered only from LANDING, and every disarm or
\* release-control command has a land command before it in the log.
C6_LandBeforeDisarm ==
    /\ []C6_LandBeforeDisarmInLog
    /\ [][C6_DisarmingFromLanding]_vars

\* disarm and release-control have been commanded
C6_Witness ==
    /\ flight_state = "DISARMING"
    /\ Issued("disarm")
    /\ Issued("release_control")

\* C7 (as claimed): a step out of DISARMING whose status flags are anything
\* other than armed = false and guided = false leaves the state DISARMING.
C7_ManualOnlyWhenReleased ==
    [][(flight_state = "DISARMING" /\ (armed' \/ guided'))
          => flight_state' = "DISARMING"]_vars

\* C8 (as claimed): LANDING -> DISARMING is taken only when the global
\* altitude is within 0.1 of the home altitude in either direction and the
\* absolute local altitude is below 0.01.
C8_DisarmWithinToleranceOfHome ==
    [][(flight_state = "LANDING" /\ flight_state' = "DISARMING")
          => /\ Abs(global_position' - global_home') < 10
             /\ Abs(local_position'[3]) < 1]_vars

\* C8 (amended): LANDING -> DISARMING is taken only when the global altitude
\* is less than 0.1 above the home altitude (any altitude below home passes)
\* and the absolute local altitude is below 0.01; otherwise a step out of
\* LANDING leaves the state LANDING and commands nothing.
C8_DisarmGuards ==
    [][flight_state = "LANDING"
          => IF flight_state' = "DISARMING"
             THEN /\ global_position' - global_home' < 10
                  /\ Abs(local_position'[3]) < 1
             ELSE flight_state' = "LANDING" /\ cmds' = cmds]_vars

\* disarmed while the global altitude was far below home
C8_Witness ==
    /\ flight_state = "DISARMING"
    /\ global_position - global_home < -10
    /\ local_position[3] = 0

\* C9 (as claimed): a position update in TAKEOFF moves to WAYPOINT exactly
\* when the altitude is at least 95% of the target altitude.
C9_TakeoffAtLeast95 ==
    [][(flight_state = "TAKEOFF" /\ LocalPositionUpdate)
          => (flight_state' = "WAYPOINT"
                <=> (-local_position'[3]) * 100 >= 95 * target_position[3])]_vars

\* C9 (amended): a position update in TAKEOFF moves to WAYPOINT exactly
\* when the altitude is strictly above 95% of the target altitude; at the
\* boundary and below the state stays TAKEOFF.
C9_TakeoffAbove95 ==
    [][(flight_state = "TAKEOFF" /\ LocalPositionUpdate)
          => IF (-local_position'[3]) * 100 > 95 * target_position[3]
             THEN flight_state' = "WAYPOINT"
             ELSE flight_state' = "TAKEOFF"]_vars

\* the first waypoint was commanded from an altitude just above the threshold
C9_Witness ==
    /\ flight_state = "WAYPOINT"
    /\ local_position[3] = -476
    /\ Len(PositionCmds) = 1
    /\ waypoints # <<>>

C10_PopCondition ==
    /\ (target_position[1] - local_position'[1]) * (target_position[1] - local_position'[1])
         + (target_position[2] - local_position'[2]) * (target_position[2] - local_position'[2])
         < 25
    /\ Len(waypoints) > 0

\* C10: a position update in WAYPOINT pops and commands the next waypoint if
\* and only if the horizontal distance to the target is below 5 and the queue
\* is non-empty; otherwise target and queue are unchanged.
C10_PopIffNearAndNonEmpty ==
    [][(flight_state = "WAYPOINT" /\ LocalPositionUpdate)
          => IF C10_PopCondition
             THEN /\ target_position' = Head(waypoints)
                  /\ waypoints' = Tail(waypoints)
                  /\ cmds' = Send(cmds, "cmd_position", Head(waypoints))
                  /\ flight_state' = "WAYPOINT"
             ELSE /\ target_position' = target_position
                  /\ waypoints' = waypoints
                  /\ cmds' \in {cmds, Send(cmds, "land", <<>>)}]_vars

\* the second waypoint was popped while the vehicle was near the first
C10_Witness ==
    /\ flight_state = "WAYPOINT"
    /\ Len(PositionCmds) = 2
    /\ waypoints = <<>>
    /\ target_position = planned[2]

\* C11 (as claimed): a position update in WAYPOINT with an empty queue and a
\* horizontal speed below 1 moves to LANDING and commands land.
C11_LandWhenEmptyAndSlow ==
    [][(/\ flight_state = "WAYPOINT"
        /\ LocalPositionUpdate
        /\ waypoints = <<>>
        /\ local_velocity[1] * local_velocity[1]
             + local_velocity[2] * local_velocity[2] < 1)
          => /\ flight_state' = "LANDING"
             /\ cmds' = Send(cmds, "land", <<>>)]_vars

C11_NearEmptySlow ==
    /\ waypoints = <<>>
    /\ local_velocity[1] * local_velocity[1]
         + local_velocity[2] * local_velocity[2] < 1
    /\ (target_position[1] - local_position'[1]) * (target_position[1] - local_position'[1])
         + (target_position[2] - local_position'[2]) * (target_position[2] - local_position'[2])
         < 25

\* C11 (amended): a position update in WAYPOINT with an empty queue, a
\* horizontal speed below 1 and a horizontal distance to the target below 5
\* moves to LANDING and commands land.
C11_LandWhenNearEmptyAndSlow ==
    [][(flight_state = "WAYPOINT" /\ LocalPositionUpdate /\ C11_NearEmptySlow)
          => /\ flight_state' = "LANDING"
             /\ cmds' = Send(cmds, "land", <<>>)]_vars

\* landed right after the last of two waypoints, standing still next to it
C11_Witness ==
    /\ flight_state = "LANDING"
    /\ cmds[Len(cmds)].op = "land"
    /\ Len(PositionCmds) = 2
    /\ local_velocity = <<0, 0>>
    /\ local_position[1] = 3

C12_FromManual ==
    (flight_state = "MANUAL" /\ in_mission /\ StateUpdate /\ ~armed')
        => flight_state' = "ARMING"

C12_StaysArming ==
    (flight_state = "ARMING" /\ StateUpdate /\ ~armed')
        => /\ flight_state' = "ARMING"
           /\ plan_calls' = plan_calls
           /\ pc' = "idle"

C12_ArmedStartsPlanning ==
    (flight_state = "ARMING" /\ StateUpdate /\ armed')
        => /\ flight_state' = "PLANNING"
           /\ plan_calls' = plan_calls + 1

C12_TakeoffAfterSuccess ==
    (flight_state = "PLANNING" /\ plan_result = "ok" /\ StateUpdate)
        => /\ flight_state' = "TAKEOFF"
           /\ cmds' = Send(cmds, "takeoff", <<TARGET_ALTITUDE>>)

\* C12: from MANUAL at the start of the mission a status event with
\* armed = false moves to ARMING; further armed = false status events stay in
\* ARMING and do not call plan_path; a status event with armed = true moves to
\* PLANNING; once the pipeline has returned its waypoints the status event
\* that follows moves to TAKEOFF.
C12_ArmPlanTakeoff ==
    [][/\ C12_FromManual
       /\ C12_StaysArming
       /\ C12_ArmedStartsPlanning
       /\ C12_TakeoffAfterSuccess]_vars

\* took off after a successful planning of a non-empty list
C12_Witness ==
    /\ flight_state = "TAKEOFF"
    /\ plan_result = "ok"
    /\ Len(waypoints) = 2
    /\ cmds[Len(cmds)].op = "takeoff"

\* C13 (as claimed): when the simplified path is exactly the two endpoints,
\* the pipeline enqueues exactly one waypoint, located at the goal.
C13_OneWaypointAtGoal ==
    (plan_result = "ok" /\ Len(simplified_path) = 2)
        => /\ Len(planned) = 1
           /\ planned[1][1] = simplified_path[2][1] + grid_offset[1]
           /\ planned[1][2] = simplified_path[2][2] + grid_offset[2]

\* C13 (amended): when the simplified path is exactly the two endpoints, the
\* pipeline enqueues exactly two waypoints, the first located at the start
\* and the second, last one located at the goal.
C13_StartAndGoalWaypoints ==
    (plan_result = "ok" /\ Len(simplified_path) = 2)
        => /\ Len(planned) = 2
           /\ planned[1][1] = simplified_path[1][1] + grid_offset[1]
           /\ planned[1][2] = simplified_path[1][2] + grid_offset[2]
           /\ planned[2][1] = simplified_path[2][1] + grid_offset[1]
           /\ planned[2][2] = simplified_path[2][2] + grid_offset[2]
           /\ (flight_state = "PLANNING" => waypoints = planned)

\* plan_path has just stored the waypoints of a path of two different cells
C13_Witness ==
    /\ flight_state = "PLANNING"
    /\ plan_result = "ok"
    /\ Len(simplified_path) = 2
    /\ simplified_path[1] # simplified_path[2]
    /\ Len(waypoints) = 2
    /\ grid_offset # <<0, 0>>

\* Drone.stop() closes the connection; it is no command to the flight controller
IsFlightCmd(c) == c.op # "stop"

FlightCmds == SelectSeq(cmds, IsFlightCmd)

\* pairs of commands that may follow one another in
\* arm, take_control, (set_home_position, send_waypoints), takeoff,
\* cmd_position x n, land, disarm, release_control
CommandOrder ==
    {<<"arm", "take_control">>, <<"take_control", "set_home_position">>,
     <<"take_control", "takeoff">>, <<"set_home_position", "send_waypoints">>,
     <<"send_waypoints", "takeoff">>, <<"takeoff", "cmd_position">>,
     <<"takeoff", "land">>, <<"cmd_position", "cmd_position">>,
     <<"cmd_position", "land">>, <<"land", "disarm">>,
     <<"disarm", "release_control">>}

\* C14 (as claimed): the commands sent so far are a prefix of arm,
\* take_control, (set_home_position, send_waypoints), takeoff(target
\* altitude), cmd_position x n, land, disarm, release_control; takeoff comes
\* after arm and take_control, position commands after takeoff, and land
\* after the first position command.
C14_CommandSequence ==
    LET log == FlightCmds
    IN  /\ Len(log) > 0 => log[1].op = "arm"
        /\ \A i \in 1..(Len(log) - 1) : <<log[i].op, log[i+1].op>> \in CommandOrder
        /\ \A i \in 1..Len(log) :
              log[i].op = "takeoff" => log[i].arg = <<TARGET_ALTITUDE>>
        /\ \A i \in 1..Len(log) :
              log[i].op = "land" => \E j \in 1..(i - 1) : log[j].op = "cmd_position"

\* C15: once manual_transition has run (MANUAL, in_mission false) no step
\* changes flight_state, the waypoint queue, the target or in_mission, or
\* sends a command: the mission is not restarted.
C15_MissionEndAbsorbing ==
    [][(flight_state = "MANUAL" /\ ~in_mission)
          => UNCHANGED <<flight_state, waypoints, target_position, in_mission,
                         cmds, plan_calls, pc>>]_vars

\* the mission has ended and every kind of telemetry has moved since touchdown
C15_Witness ==
    /\ flight_state = "MANUAL"
    /\ ~in_mission
    /\ cmds[Len(cmds)].op = "stop"
    /\ local_position[3] = -476
    /\ local_velocity = <<1, 0>>
    /\ armed

C16_Unhandled ==
    \/ LocalPositionUpdate /\ flight_state \notin {"TAKEOFF", "WAYPOINT"}
    \/ LocalVelocityUpdate /\ flight_state # "LANDING"
    \/ StateUpdate /\ flight_state \in {"TAKEOFF", "WAYPOINT", "LANDING"}

\* C16: a position update outside TAKEOFF and WAYPOINT, a velocity update
\* outside LANDING and a status update in TAKEOFF, WAYPOINT or LANDING leave
\* flight_state, target_position, the queue and in_mission unchanged and send
\* no command.
C16_UnhandledCallbacksNoEffect ==
    [][C16_Unhandled
          => UNCHANGED <<flight_state, target_position, waypoints, in_mission,
                         cmds>>]_vars

\* in ARMING with a velocity and a position that only updates outside their
\* states can have stored
C16_Witness ==
    /\ flight_state = "ARMING"
    /\ local_velocity = <<1, 0>>
    /\ local_position = <<6, 8, -476>>
    /\ Len(cmds) = 2

\* C17 (as claimed): whenever waypoint_transition runs (out of TAKEOFF or out
\* of WAYPOINT) the queue holds at least one element.
C17_PopNeverOnEmptyQueue ==
    [][(/\ flight_state \in {"TAKEOFF", "WAYPOINT"}
        /\ flight_state' = "WAYPOINT"
        /\ \/ flight_state = "TAKEOFF"
           \/ target_position' # target_position
           \/ cmds' # cmds)
          => Len(waypoints) > 0]_vars

\* C18: with planning that succeeds and fair telemetry in which every pending
\* guard eventually holds when its callback is delivered, the state machine
\* eventually is back in MANUAL with in_mission false and an empty queue.
C18_MissionCompletes == <>(MissionEnded /\ waypoints = <<>>)

\* a mission over two waypoints has run to its end
C18_Witness ==
    /\ MissionEnded
    /\ waypoints = <<>>
    /\ plan_result = "ok"
    /\ Len(planned) = 2
    /\ PositionCmds = planned

C19_SelectedInBoundsAndFree ==
    /\ goal_ne # <<>> => InGrid(grid, goal_ne)
    /\ (goal_pc = "done" \/ found)
          => /\ goal_pc = "done"
             /\ found
             /\ InGrid(grid, goal_ne)
             /\ grid[goal_ne[1]][goal_ne[2]] = 0

C20_TakeoffAltitudeIsWaypointAltitude ==
    \A i \in 1..Len(cmds) :
        cmds[i].op = "takeoff"
            => /\ cmds[i].arg = <<500>>
               /\ \A k \in 1..Len(planned) : planned[k][3] = cmds[i].arg[1]

\* C20: plan_path produces exactly one waypoint per cell of the simplified
\* path, in path order; waypoint i is (row_i + north_offset, col_i +
\* east_offset, target altitude, heading_i), and every waypoint's altitude is
\* the altitude of the takeoff command.
C20_WaypointConstruction ==
    /\ plan_result = "ok"
          => /\ Len(planned) = Len(simplified_path)
             /\ \A i \in 1..Len(simplified_path) :
                   /\ planned[i][1] = simplified_path[i][1] + grid_offset[1]
                   /\ planned[i][2] = simplified_path[i][2] + grid_offset[2]
                   /\ planned[i][3] = 500
                   /\ planned[i][4] = heading(simplified_path)[i]
    /\ C20_TakeoffAltitudeIsWaypointAltitude

\* took off with the waypoints of a two-cell path and offsets other than 0
C20_Witness ==
    /\ flight_state = "TAKEOFF"
    /\ Issued("takeoff")
    /\ Len(simplified_path) = 2
    /\ simplified_path[2] = <<3, 4>>
    /\ grid_offset = <<-1, 1>>
    /\ Len(planned) = 2

====
